---- MODULE Spec2Model ----
(***************************************************************************)
(* rmq_monitor: the polling loop of src/main.rs.  Each cycle fetches the   *)
(* queue statistics, evaluates the configured triggers against them with   *)
(* an intra-cycle dedup registry, hands the resulting Slack messages to    *)
(* the sender and sleeps.                                                  *)
(***************************************************************************)
EXTENDS Naturals, Sequences, FiniteSets, TLC

(***************************************************************************)
(* Bounds of the model.                                                    *)
(***************************************************************************)
MaxTriggers == 2
MaxStats == 2
MaxThreshold == 2
MaxValue == 3

(* The five variants of enum Trigger. *)
TriggerTypes ==
    {"ConsumersTotal", "MemoryTotal", "MessagesTotal", "ReadyMsgs", "UnacknowledgedMsgs"}

QueueNames == {"a", "b"}

(* Option<String>: None is the empty sequence, Some(s) is <<s>>. *)
OptionOf(S) == {<<>>} \cup {<<s>> : s \in S}

TriggerData == [threshold : 0..MaxThreshold, queue : OptionOf(QueueNames)]

Trigger == [type : TriggerTypes, data : TriggerData]

data(t) == t.data

field_name(t) ==
    CASE t.type = "ConsumersTotal" -> "consumers"
      [] t.type = "MemoryTotal" -> "memory"
      [] t.type = "MessagesTotal" -> "messages"
      [] t.type = "ReadyMsgs" -> "messages_ready"
      [] t.type = "UnacknowledgedMsgs" -> "messages_unacknowledged"

(* Mutant: the text names the stat field, not the display name. *)
NameIsFieldName(t) == field_name(t)

name(t) ==
    CASE t.type = "ConsumersTotal" -> "total number of consumers"
      [] t.type = "MemoryTotal" -> "memory consumption"
      [] t.type = "MessagesTotal" -> "total number of messages"
      [] t.type = "ReadyMsgs" -> "ready messages"
      [] t.type = "UnacknowledgedMsgs" -> "unacknowledged messages"

FieldNames == {field_name(t) : t \in Trigger}

(* rmq::QueueStat and the per-queue entry of get_queue_info's result. *)
QueueStat == [name : FieldNames, value : 0..MaxValue]

QueueInfo == [name : QueueNames, stat : QueueStat]

(* Sequences over S of length at most n. *)
SeqUpTo(S, n) == UNION {[1..k -> S] : k \in 0..n}

(* The inputs of the model.  Lists of one element range over every trigger *)
(* and every stat.  Longer lists range over two variants, each with        *)
(* threshold 1 or 2 and no scope or with threshold 1 and scope "a", and    *)
(* over two stat names, each with value 2 or 3 in queue "a" or value 3 in  *)
(* queue "b".                                                              *)
ListTrigger ==
    {t \in Trigger :
        /\ t.type \in {"MessagesTotal", "ReadyMsgs"}
        /\ <<t.data.threshold, t.data.queue>> \in {<<1, <<>>>>, <<2, <<>>>>, <<1, <<"a">>>>}}

ListQueueInfo ==
    {qi \in QueueInfo :
        /\ qi.stat.name \in {"messages", "messages_ready"}
        /\ <<qi.name, qi.stat.value>> \in {<<"a", 2>>, <<"a", 3>>, <<"b", 3>>}}

Configs == SeqUpTo(ListTrigger, MaxTriggers) \cup [1..1 -> Trigger]

Fetches == SeqUpTo(ListQueueInfo, MaxStats) \cup [1..1 -> QueueInfo]

(* config.slack *)
SlackConfig ==
    [channel |-> "alerts", screen_name |-> "rmq_monitor", icon_url |-> <<>>, icon_emoji |-> <<":rabbit:">>]

(* Mutant: the queue scope of the trigger is not looked at. *)
ApplicabilityIgnoringQueue(trigger, queue_name, stat) == field_name(trigger) = stat.name

check_trigger_applicability(trigger, queue_name, stat) ==
    IF data(trigger).queue # <<>>
    THEN data(trigger).queue[1] = queue_name /\ field_name(trigger) = stat.name
    ELSE field_name(trigger) = stat.name

(* Mutant: the comparison is not strict. *)
FiresAtThreshold(t, qi) == qi.stat.value >= data(t).threshold

(* The second filter of the pipeline. *)
Fires(t, qi) == qi.stat.value > data(t).threshold

(* Mutant: the key tells triggers of one variant apart by their threshold. *)
RegistryKeyWithThreshold(t, qi) == <<qi.name, field_name(t), data(t).threshold>>

(* Mutant: the key is the queue alone. *)
RegistryKeyQueueOnly(t, qi) == <<qi.name>>

RegistryKey(t, qi) == <<qi.name, field_name(t)>>

(* Mutant: the registry is never found to hold a key. *)
ContainsNothing(registry, key) == FALSE

(* Mutant: a key is found as soon as the registry holds a key of its queue. *)
ContainsQueue(registry, key) == \E k \in 1..Len(registry) : registry[k][1] = key[1]

Contains(registry, key) == \E k \in 1..Len(registry) : registry[k] = key

FormatText(queue, threshold, trigger_type, number) ==
    "Queue " \o queue \o " has passed a threshold of " \o ToString(threshold)
        \o " " \o trigger_type \o ". Currently at " \o ToString(number) \o "."

MakeSlackMsg(t, qi) ==
    [username |-> SlackConfig.screen_name,
     channel |-> "#" \o SlackConfig.channel,
     text |-> <<FormatText(qi.name, data(t).threshold, name(t), qi.stat.value)>>,
     icon_url |-> SlackConfig.icon_url,
     icon_emoji |-> SlackConfig.icon_emoji,
     attachments |-> <<>>]

(* Mutant: a trigger's messages are put in front of the earlier triggers'. *)
FlatMapReversed(collected, per_trigger) == per_trigger \o collected

(* Mutant: map in place of flat_map, the trigger's vector is pushed unflattened. *)
FlatMapNotFlattened(collected, per_trigger) == Append(collected, per_trigger)

(* flat_map over the per-trigger vectors: they are concatenated in order. *)
FlatMap(collected, per_trigger) == collected \o per_trigger

(* The messages of one cycle, as the nested iterators of main compute them: *)
(* the pairs from <<i, j>> on, with the registry and the output so far.     *)
RECURSIVE EvaluateFrom(_, _, _, _, _, _)
EvaluateFrom(trs, stats, i, j, registry, out) ==
    IF i > Len(trs) THEN out
    ELSE IF j > Len(stats) THEN EvaluateFrom(trs, stats, i + 1, 1, registry, out)
    ELSE LET t == trs[i]
             qi == stats[j]
             key == RegistryKey(t, qi)
         IN IF /\ check_trigger_applicability(t, qi.name, qi.stat)
               /\ Fires(t, qi)
               /\ ~Contains(registry, key)
            THEN EvaluateFrom(trs, stats, i, j + 1, Append(registry, key),
                              Append(out, MakeSlackMsg(t, qi)))
            ELSE EvaluateFrom(trs, stats, i, j + 1, registry, out)

Evaluate(trs, stats) == EvaluateFrom(trs, stats, 1, 1, <<>>, <<>>)

VARIABLES
    triggers,            \* config.triggers
    queue_info,          \* the result of get_queue_info in this cycle
    pc,                  \* position of main in its loop
    ti, si,              \* positions of the two iterators
    active_trigger_registry,
    trigger_msgs,        \* the inner msgs vector, of the trigger at ti
    msgs,                \* the outer msgs vector
    trigger_src, src,    \* history: the <<ti, si>> each message was made from
    sent,                \* history: the payloads handed to the sender this cycle
    last,                \* history: <<>>, or what the pipeline did with the pair
                         \* it handled last
    prev,                \* history: <<>>, or the last cycle's stats, messages and
                         \* alerted keys when the broker reports the same stats again
    failed               \* which call returned the error main exited with

vars ==
    <<triggers, queue_info, pc, ti, si, active_trigger_registry, trigger_msgs, msgs,
      trigger_src, src, sent, last, prev, failed>>

(* Mutant: the registry outlives the cycle, and still holds the keys alerted in *)
(* the cycle before.                                                            *)
CarriedRegistry == IF prev = <<>> THEN <<>> ELSE prev[1].alerted

(* let mut active_trigger_registry = vec![] *)
NewRegistry == <<>>

(* The registry key of the message made from the pair p = <<i, j>>. *)
KeyOf(p) == RegistryKey(triggers[p[1]], queue_info[p[2]])

Init ==
    /\ triggers \in Configs
    /\ queue_info = <<>>
    /\ pc = "fetch"
    /\ ti = 1
    /\ si = 1
    /\ active_trigger_registry = <<>>
    /\ trigger_msgs = <<>>
    /\ msgs = <<>>
    /\ trigger_src = <<>>
    /\ src = <<>>
    /\ sent = <<>>
    /\ last = <<>>
    /\ prev = <<>>
    /\ failed = "none"

(* get_queue_info(...)? returned Ok: the cycle's registry and iterators are created. *)
GetQueueInfoOk ==
    /\ pc = "fetch"
    /\ queue_info' \in (IF prev = <<>> THEN Fetches ELSE {prev[1].queue_info})
    /\ active_trigger_registry' = NewRegistry
    /\ ti' = 1
    /\ si' = 1
    /\ trigger_msgs' = <<>>
    /\ msgs' = <<>>
    /\ trigger_src' = <<>>
    /\ src' = <<>>
    /\ last' = <<>>
    /\ pc' = "eval"
    /\ UNCHANGED <<triggers, sent, prev, failed>>

(* get_queue_info(...)? returned Err: main returns it. *)
GetQueueInfoErr ==
    /\ pc = "fetch"
    /\ pc' = "exit"
    /\ failed' = "get_queue_info"
    /\ UNCHANGED <<triggers, queue_info, ti, si, active_trigger_registry, trigger_msgs,
                   msgs, trigger_src, src, sent, last, prev>>

(* Mutant: the key is pushed before the registry is asked for it. *)
EvalPairPushFirst ==
    /\ pc = "eval"
    /\ ti <= Len(triggers)
    /\ si <= Len(queue_info)
    /\ LET t == triggers[ti]
           qi == queue_info[si]
           key == RegistryKey(t, qi)
           applicable == check_trigger_applicability(t, qi.name, qi.stat)
           fired == applicable /\ Fires(t, qi)
           pushed == IF fired THEN Append(active_trigger_registry, key)
                              ELSE active_trigger_registry
           emitted == fired /\ ~Contains(pushed, key)
       IN /\ active_trigger_registry' = pushed
          /\ IF emitted
             THEN /\ trigger_msgs' = Append(trigger_msgs, MakeSlackMsg(t, qi))
                  /\ trigger_src' = Append(trigger_src, <<ti, si>>)
             ELSE UNCHANGED <<trigger_msgs, trigger_src>>
          /\ last' = <<[ti |-> ti, si |-> si, applicable |-> applicable,
                        fired |-> fired, emitted |-> emitted]>>
    /\ si' = si + 1
    /\ UNCHANGED <<triggers, queue_info, pc, ti, msgs, src, sent, prev, failed>>

(* One element of queue_info.iter() through filter, filter, map, filter_map. *)
EvalPair ==
    /\ pc = "eval"
    /\ ti <= Len(triggers)
    /\ si <= Len(queue_info)
    /\ LET t == triggers[ti]
           qi == queue_info[si]
           key == RegistryKey(t, qi)
           applicable == check_trigger_applicability(t, qi.name, qi.stat)
           fired == applicable /\ Fires(t, qi)
           emitted == fired /\ ~Contains(active_trigger_registry, key)
       IN /\ IF emitted
             THEN /\ active_trigger_registry' = Append(active_trigger_registry, key)
                  /\ trigger_msgs' = Append(trigger_msgs, MakeSlackMsg(t, qi))
                  /\ trigger_src' = Append(trigger_src, <<ti, si>>)
             ELSE UNCHANGED <<active_trigger_registry, trigger_msgs, trigger_src>>
          /\ last' = <<[ti |-> ti, si |-> si, applicable |-> applicable,
                        fired |-> fired, emitted |-> emitted]>>
    /\ si' = si + 1
    /\ UNCHANGED <<triggers, queue_info, pc, ti, msgs, src, sent, prev, failed>>

(* The inner collect() is done: the trigger's vector is flattened into the output. *)
NextTrigger ==
    /\ pc = "eval"
    /\ ti <= Len(triggers)
    /\ si > Len(queue_info)
    /\ msgs' = FlatMap(msgs, trigger_msgs)
    /\ src' = FlatMap(src, trigger_src)
    /\ trigger_msgs' = <<>>
    /\ trigger_src' = <<>>
    /\ ti' = ti + 1
    /\ si' = 1
    /\ last' = <<>>
    /\ UNCHANGED <<triggers, queue_info, pc, active_trigger_registry, sent, prev, failed>>

(* Mutant: nothing is sent when there is no message. *)
CollectedSkippingEmptySend ==
    /\ pc = "eval"
    /\ ti > Len(triggers)
    /\ pc' = IF msgs = <<>> THEN "sleep" ELSE "send"
    /\ UNCHANGED <<triggers, queue_info, ti, si, active_trigger_registry, trigger_msgs,
                   msgs, trigger_src, src, sent, last, prev, failed>>

(* The outer collect() is done. *)
Collected ==
    /\ pc = "eval"
    /\ ti > Len(triggers)
    /\ pc' = "send"
    /\ UNCHANGED <<triggers, queue_info, ti, si, active_trigger_registry, trigger_msgs,
                   msgs, trigger_src, src, sent, last, prev, failed>>

(* send_multiple_slack_msgs(...)? returned Ok; then active_trigger_registry.clear(). *)
SendOk ==
    /\ pc = "send"
    /\ sent' = Append(sent, msgs)
    /\ active_trigger_registry' = <<>>
    /\ pc' = "sleep"
    /\ UNCHANGED <<triggers, queue_info, ti, si, trigger_msgs, msgs, trigger_src, src,
                   last, prev, failed>>

(* Mutant: the delivery error is noted and the loop goes on. *)
SendErrIgnored ==
    /\ pc = "send"
    /\ pc' = "sleep"
    /\ failed' = "send_multiple_slack_msgs"
    /\ UNCHANGED <<triggers, queue_info, ti, si, active_trigger_registry, trigger_msgs,
                   msgs, trigger_src, src, sent, last, prev>>

(* send_multiple_slack_msgs(...)? returned Err: main returns it. *)
SendErr ==
    /\ pc = "send"
    /\ pc' = "exit"
    /\ failed' = "send_multiple_slack_msgs"
    /\ UNCHANGED <<triggers, queue_info, ti, si, active_trigger_registry, trigger_msgs,
                   msgs, trigger_src, src, sent, last, prev>>

(* Mutant: main returns after the first cycle's sleep. *)
SleepThenReturn ==
    /\ pc = "sleep"
    /\ pc' = "exit"
    /\ UNCHANGED <<triggers, queue_info, ti, si, active_trigger_registry, trigger_msgs,
                   msgs, trigger_src, src, sent, last, prev, failed>>

(* thread::sleep(sleep_time) returned: the cycle's locals are dropped and the loop *)
(* starts over.  Meanwhile the broker's stats either stayed as they were (prev     *)
(* remembers this cycle) or changed to anything (prev forgets it).                 *)
Sleep ==
    /\ pc = "sleep"
    /\ pc' = "fetch"
    /\ \E same \in BOOLEAN :
          prev' = IF same
                  THEN <<[queue_info |-> queue_info, msgs |-> msgs,
                          alerted |-> [k \in 1..Len(src) |-> KeyOf(src[k])]]>>
                  ELSE <<>>
    /\ queue_info' = <<>>
    /\ msgs' = <<>>
    /\ src' = <<>>
    /\ sent' = <<>>
    /\ UNCHANGED <<triggers, ti, si, active_trigger_registry, trigger_msgs, trigger_src,
                   last, failed>>

Next ==
    \/ GetQueueInfoOk
    \/ GetQueueInfoErr
    \/ EvalPair
    \/ NextTrigger
    \/ Collected
    \/ SendOk
    \/ SendErr
    \/ Sleep

Spec == Init /\ [][Next]_vars

(* main is one sequential loop: a call that can return does return, an iterator   *)
(* that can advance does advance, and the sleep ends.                             *)
(* Progress of the loop is checked for the configurations of at most one trigger. *)
FairInit == Init /\ Len(triggers) <= 1

FairSpec == FairInit /\ [][Next]_vars /\ WF_vars(Next)

(***************************************************************************)
(* Properties.                                                             *)
(***************************************************************************)

(* The messages made so far in this cycle, and the pairs they were made from. *)
AllMsgs == msgs \o trigger_msgs

AllSrc == src \o trigger_src

TriggerOf(p) == triggers[p[1]]

StatOf(p) == queue_info[p[2]]

(* Every message made so far is the message of the pair recorded for it. *)
SrcExplainsMsgs ==
    /\ Len(AllMsgs) = Len(AllSrc)
    /\ \A k \in 1..Len(AllSrc) :
          /\ AllSrc[k][1] \in 1..Len(triggers)
          /\ AllSrc[k][2] \in 1..Len(queue_info)
          /\ AllMsgs[k] = MakeSlackMsg(TriggerOf(AllSrc[k]), StatOf(AllSrc[k]))

(* Trigger i applies to stat j and stat j exceeds its threshold. *)
AppliesAndFires(i, j) ==
    /\ check_trigger_applicability(triggers[i], queue_info[j].name, queue_info[j].stat)
    /\ queue_info[j].stat.value > triggers[i].data.threshold

LexLess(p, q) == p[1] < q[1] \/ (p[1] = q[1] /\ p[2] < q[2])

(* C1: in every cycle no two messages refer to the same (queue_name,        *)
(* field_name) pair, whatever the triggers and the stats are, also when     *)
(* several triggers apply to and fire on the same stat.                     *)
C1_OneMessagePerKey ==
    /\ SrcExplainsMsgs
    /\ \A k1, k2 \in 1..Len(AllSrc) :
          k1 # k2 => KeyOf(AllSrc[k1]) # KeyOf(AllSrc[k2])

(* A global trigger and one scoped to the stat's queue both fire on one stat, *)
(* and the cycle's output is one message.                                     *)
C1_Witness ==
    /\ pc = "send"
    /\ Len(msgs) = 1
    /\ \E i1, i2 \in 1..Len(triggers) : \E j \in 1..Len(queue_info) :
          /\ triggers[i1].data.queue = <<>>
          /\ triggers[i2].data.queue = <<queue_info[j].name>>
          /\ triggers[i1].data.threshold # triggers[i2].data.threshold
          /\ AppliesAndFires(i1, j)
          /\ AppliesAndFires(i2, j)

(* C2: check_trigger_applicability(T, S) is field_name(T) = S.stat_name for *)
(* a trigger without queue scope, and field_name(T) = S.stat_name and       *)
(* Q = S.queue_name for a trigger scoped to queue Q, for every variant and  *)
(* every stat.                                                              *)
C2_Applicability ==
    last # <<>> =>
        LET t == triggers[last[1].ti]
            qi == queue_info[last[1].si]
        IN last[1].applicable =
              IF t.data.queue = <<>>
              THEN field_name(t) = qi.stat.name
              ELSE field_name(t) = qi.stat.name /\ t.data.queue = <<qi.name>>

(* A trigger scoped to queue "a" was just found not to apply to a stat of   *)
(* queue "b" that has its field and exceeds its threshold.                  *)
C2_Witness ==
    /\ last # <<>>
    /\ LET t == triggers[last[1].ti]
           qi == queue_info[last[1].si]
       IN /\ t.data.queue = <<"a">>
          /\ qi.name = "b"
          /\ field_name(t) = qi.stat.name
          /\ qi.stat.value > t.data.threshold
          /\ ~last[1].applicable

(* C3: a trigger fires for an applicable stat iff value > threshold: a stat *)
(* with value = threshold never causes a message from that trigger, and a   *)
(* stat with value = threshold + 1 passes the filter and yields a message   *)
(* unless its key was alerted earlier in the cycle.                         *)
C3_StrictThreshold ==
    /\ \A k \in 1..Len(AllSrc) :
          StatOf(AllSrc[k]).stat.value > TriggerOf(AllSrc[k]).data.threshold
    /\ (last # <<>> /\ last[1].applicable) =>
          LET p == <<last[1].ti, last[1].si>>
              value == StatOf(p).stat.value
              threshold == TriggerOf(p).data.threshold
              earlier == \E k \in 1..Len(AllSrc) :
                            AllSrc[k] # p /\ KeyOf(AllSrc[k]) = KeyOf(p)
          IN /\ last[1].fired = (value > threshold)
             /\ value = threshold => ~last[1].emitted
             /\ value = threshold + 1 => last[1].fired /\ (last[1].emitted = ~earlier)

(* A trigger made no message from an applicable stat at its threshold, and  *)
(* then one from the next stat, which is one above it.                      *)
C3_Witness ==
    /\ last # <<>>
    /\ last[1].si = 2
    /\ last[1].applicable
    /\ last[1].emitted
    /\ LET t == triggers[last[1].ti]
       IN /\ queue_info[2].stat.value = t.data.threshold + 1
          /\ queue_info[1].stat.value = t.data.threshold
          /\ check_trigger_applicability(t, queue_info[1].name, queue_info[1].stat)
          /\ trigger_src = <<<<last[1].ti, 2>>>>

(* C4: the output is ordered by trigger index and, within a trigger, by     *)
(* stat index: a message that precedes another was made from a              *)
(* lexicographically smaller (trigger index, stat index).                   *)
C4_OutputOrder ==
    /\ SrcExplainsMsgs
    /\ \A k1, k2 \in 1..Len(AllSrc) : k1 < k2 => LexLess(AllSrc[k1], AllSrc[k2])

(* The first trigger's message from the second stat precedes the second     *)
(* trigger's message from the first stat.                                   *)
C4_Witness ==
    /\ pc = "send"
    /\ src = <<<<1, 2>>, <<2, 1>>>>
    /\ Len(msgs) = 2
    /\ msgs[1] # msgs[2]

(* C5: the registry is empty at the start of every cycle's evaluation, so a *)
(* cycle that fetches the stats of the cycle before produces the messages   *)
(* of the cycle before: no key alerted then is suppressed now.              *)
C5_CrossCycleIndependence ==
    /\ (pc = "eval" /\ ti = 1 /\ si = 1) => active_trigger_registry = <<>>
    /\ (pc = "send" /\ prev # <<>> /\ queue_info = prev[1].queue_info) =>
          /\ msgs = prev[1].msgs
          /\ \A k \in 1..Len(prev[1].alerted) :
                \E m \in 1..Len(src) : KeyOf(src[m]) = prev[1].alerted[k]

(* A cycle with the stats of the cycle before has made the same, non-empty, *)
(* messages.                                                                *)
C5_Witness ==
    /\ pc = "send"
    /\ prev # <<>>
    /\ queue_info = prev[1].queue_info
    /\ prev[1].msgs # <<>>
    /\ msgs = prev[1].msgs

DisplayName(type) ==
    CASE type = "ConsumersTotal" -> "total number of consumers"
      [] type = "MemoryTotal" -> "memory consumption"
      [] type = "MessagesTotal" -> "total number of messages"
      [] type = "ReadyMsgs" -> "ready messages"
      [] type = "UnacknowledgedMsgs" -> "unacknowledged messages"

(* C6: every message is composed from one (trigger, stat) pair that is      *)
(* applicable and fires; its text is "Queue {queue_name} has passed a       *)
(* threshold of {threshold} {display_name}. Currently at {value}." with the *)
(* stat's queue and value and the trigger's threshold and variant's display *)
(* name, so the reported value is greater than the reported threshold.      *)
C6_MessageComposition ==
    /\ Len(AllMsgs) = Len(AllSrc)
    /\ \A k \in 1..Len(AllSrc) :
          LET t == TriggerOf(AllSrc[k])
              qi == StatOf(AllSrc[k])
          IN /\ check_trigger_applicability(t, qi.name, qi.stat)
             /\ qi.stat.value > t.data.threshold
             /\ AllMsgs[k].text =
                   <<"Queue " \o qi.name \o " has passed a threshold of "
                       \o ToString(t.data.threshold) \o " " \o DisplayName(t.type)
                       \o ". Currently at " \o ToString(qi.stat.value) \o ".">>

(* The cycle's output is the alert of an unacknowledged-messages trigger.   *)
C6_Witness ==
    /\ pc = "send"
    /\ Len(msgs) = 1
    /\ msgs[1].text =
          <<"Queue b has passed a threshold of 0 unacknowledged messages. Currently at 3.">>

(* C7: with no trigger, or with no stat, the cycle's evaluation makes no    *)
(* message, leaves the registry empty and does not fail.                    *)
C7_EmptyInputs ==
    (/\ pc \in {"eval", "send", "sleep"} \/ failed = "send_multiple_slack_msgs"
     /\ triggers = <<>> \/ queue_info = <<>>) =>
        /\ AllMsgs = <<>>
        /\ active_trigger_registry = <<>>
        /\ pc = "eval" => ENABLED (EvalPair \/ NextTrigger \/ Collected)
        /\ pc = "sleep" => sent = <<<<>>>>

(* A cycle without triggers that fetched stats has delivered no message.    *)
C7_Witness ==
    /\ pc = "sleep"
    /\ triggers = <<>>
    /\ Len(queue_info) = 2
    /\ sent = <<<<>>>>

(* C8: a failed fetch or a failed delivery is fatal: after a failed fetch   *)
(* the cycle has evaluated and delivered nothing, after a failed delivery   *)
(* nothing was delivered, in both cases main has exited without sleeping    *)
(* and takes no further step.                                               *)
C8_FatalErrors ==
    /\ failed # "none" => pc = "exit"
    /\ pc = "exit" =>
          /\ failed \in {"get_queue_info", "send_multiple_slack_msgs"}
          /\ ~ENABLED Next
          /\ sent = <<>>
          /\ failed = "get_queue_info" =>
                /\ queue_info = <<>>
                /\ AllMsgs = <<>>
                /\ active_trigger_registry = <<>>
                /\ last = <<>>

(* main has exited on a failed delivery of a later cycle's messages.        *)
C8_Witness ==
    /\ pc = "exit"
    /\ failed = "send_multiple_slack_msgs"
    /\ prev # <<>>
    /\ msgs # <<>>

(* C9: the steps of a cycle are fetch, evaluate, deliver, sleep, in this    *)
(* order and one cycle after the other; the stats change only at the fetch; *)
(* a cycle that reaches its sleep has delivered once, and what it delivered *)
(* is the evaluation of the stats it fetched, also when that is empty.      *)
C9_SequentialCycles ==
    [][/\ pc' # pc =>
            <<pc, pc'>> \in {<<"fetch", "eval">>, <<"eval", "send">>, <<"send", "sleep">>,
                             <<"sleep", "fetch">>, <<"fetch", "exit">>, <<"send", "exit">>}
       /\ pc' = "sleep" => sent' = <<msgs'>> /\ msgs' = Evaluate(triggers', queue_info')
       /\ pc' \in {"fetch", "eval", "send"} => sent' = <<>>
       /\ queue_info' # queue_info => pc \in {"fetch", "sleep"}]_vars

(* A later cycle sleeps after delivering its two messages.                  *)
C9_Witness ==
    /\ pc = "sleep"
    /\ prev # <<>>
    /\ Len(msgs) = 2
    /\ sent = <<msgs>>

(* C10: the loop ends only by a failed fetch or a failed delivery; until    *)
(* then a step is always possible, and every completed cycle is followed by *)
(* another fetch.                                                           *)
C10_PollsForever ==
    /\ [](pc = "exit" => failed \in {"get_queue_info", "send_multiple_slack_msgs"})
    /\ [](pc # "exit" => ENABLED Next)
    /\ (pc = "sleep") ~> (pc = "fetch")
    /\ (pc = "fetch") ~> (pc \in {"eval", "exit"})

(* The fetch of a cycle that follows a completed one.                       *)
C10_Witness ==
    /\ pc = "fetch"
    /\ prev # <<>>
    /\ prev[1].msgs # <<>>

(* The (queue_name, field_name) pair the message made from the pair p is about. *)
AlertKey(p) == <<StatOf(p).name, field_name(TriggerOf(p))>>

(* The pairs of this cycle whose trigger applies to and fires on their stat. *)
FiringPairs ==
    {p \in (1..Len(triggers)) \X (1..Len(queue_info)) : AppliesAndFires(p[1], p[2])}

(* C11: deduplication neither loses nor invents an alert: the keys of a     *)
(* cycle's messages are exactly the keys (S.queue_name, T.field_name) of    *)
(* the pairs where T applies to S and S.value > T.threshold; there are no   *)
(* more messages than distinct (queue_name, stat_name) pairs in the stats.  *)
C11_AlertedKeysAreFiringKeys ==
    pc = "send" =>
        /\ SrcExplainsMsgs
        /\ {AlertKey(src[k]) : k \in 1..Len(src)} = {AlertKey(p) : p \in FiringPairs}
        /\ Len(msgs) <=
              Cardinality({<<queue_info[j].name, queue_info[j].stat.name>> :
                              j \in 1..Len(queue_info)})

(* Two equal stat entries fire a trigger, and the output is one message.    *)
C11_Witness ==
    /\ pc = "send"
    /\ Len(queue_info) = 2
    /\ queue_info[1] = queue_info[2]
    /\ \E i \in 1..Len(triggers) : AppliesAndFires(i, 1) /\ AppliesAndFires(i, 2)
    /\ Len(msgs) = 1

(* The first pair, in iteration order, that fires with the key of p. *)
FirstFiring(p) ==
    CHOOSE q \in FiringPairs :
        /\ AlertKey(q) = AlertKey(p)
        /\ \A r \in FiringPairs : AlertKey(r) = AlertKey(p) => (r = q \/ LexLess(q, r))

(* C12: first match wins: the one message of a key is made from the first   *)
(* firing pair of that key in iteration order, with that pair's threshold   *)
(* and value; later firing pairs of the key change and add nothing.         *)
C12_FirstMatchWins ==
    pc = "send" =>
        /\ SrcExplainsMsgs
        /\ Len(msgs) = Cardinality({AlertKey(p) : p \in FiringPairs})
        /\ \A p \in FiringPairs :
              \E k \in 1..Len(src) :
                 /\ src[k] = FirstFiring(p)
                 /\ msgs[k].text =
                       <<FormatText(StatOf(FirstFiring(p)).name,
                                    TriggerOf(FirstFiring(p)).data.threshold,
                                    name(TriggerOf(FirstFiring(p))),
                                    StatOf(FirstFiring(p)).stat.value)>>

(* The first of two triggers of one variant fired on the first of two stats *)
(* of one queue; the second trigger has another threshold, the second stat  *)
(* another value, both fire as well, and the output is the first pair's     *)
(* message alone.                                                           *)
C12_Witness ==
    /\ pc = "send"
    /\ Len(triggers) = 2
    /\ Len(queue_info) = 2
    /\ triggers[1].type = triggers[2].type
    /\ triggers[1].data.threshold # triggers[2].data.threshold
    /\ queue_info[1].name = queue_info[2].name
    /\ queue_info[1].stat.value # queue_info[2].stat.value
    /\ {<<1, 1>>, <<1, 2>>, <<2, 2>>} \subseteq FiringPairs
    /\ src = <<<<1, 1>>>>
    /\ Len(msgs) = 1

(* C13: the registry never holds a pair twice: it is cleared or grows by    *)
(* one pair it did not hold, and during a cycle's evaluation it holds the   *)
(* keys of the messages made so far in the cycle, one entry per message, in *)
(* their order.                                                             *)
C13_RegistryHoldsEachKeyOnce ==
    /\ [](/\ \A k1, k2 \in 1..Len(active_trigger_registry) :
               k1 # k2 => active_trigger_registry[k1] # active_trigger_registry[k2]
          /\ pc \in {"eval", "send"} =>
                active_trigger_registry = [k \in 1..Len(AllSrc) |-> AlertKey(AllSrc[k])])
    /\ [][active_trigger_registry' # active_trigger_registry =>
            \/ active_trigger_registry' = <<>>
            \/ /\ pc = "eval"
               /\ Len(active_trigger_registry') = Len(active_trigger_registry) + 1
               /\ SubSeq(active_trigger_registry', 1, Len(active_trigger_registry))
                     = active_trigger_registry
               /\ \A k \in 1..Len(active_trigger_registry) :
                     active_trigger_registry[k]
                        # active_trigger_registry'[Len(active_trigger_registry')]]_vars

(* A firing pair has just been skipped for a key the registry holds, and    *)
(* the registry holds two keys for the two messages made so far.            *)
C13_Witness ==
    /\ pc = "eval"
    /\ last # <<>>
    /\ last[1].fired
    /\ ~last[1].emitted
    /\ Len(active_trigger_registry) = 2
    /\ Len(AllMsgs) = 2

(* C14: the five variants have five distinct field names, so suppression    *)
(* happens only between triggers of one variant: when triggers of two       *)
(* variants fire on stats of one queue, the output has a message of each    *)
(* variant for that queue, and a firing pair is skipped only after a        *)
(* message of its own variant and queue.                                    *)
C14_SuppressionWithinVariant ==
    /\ \A v1, v2 \in TriggerTypes :
          v1 # v2 => field_name([type |-> v1]) # field_name([type |-> v2])
    /\ pc = "send" =>
          \A p, q \in FiringPairs :
             (TriggerOf(p).type # TriggerOf(q).type /\ StatOf(p).name = StatOf(q).name) =>
                \E k1, k2 \in 1..Len(src) :
                   /\ k1 # k2
                   /\ TriggerOf(src[k1]).type = TriggerOf(p).type
                   /\ TriggerOf(src[k2]).type = TriggerOf(q).type
                   /\ StatOf(src[k1]).name = StatOf(p).name
                   /\ StatOf(src[k2]).name = StatOf(p).name
    /\ (last # <<>> /\ last[1].fired /\ ~last[1].emitted) =>
          \E k \in 1..Len(AllSrc) :
             /\ AllSrc[k] # <<last[1].ti, last[1].si>>
             /\ TriggerOf(AllSrc[k]).type = triggers[last[1].ti].type
             /\ StatOf(AllSrc[k]).name = queue_info[last[1].si].name

(* Triggers of two variants fired on stats of one queue, and the output is  *)
(* one message of each.                                                     *)
C14_Witness ==
    /\ pc = "send"
    /\ Len(msgs) = 2
    /\ src = <<<<1, 1>>, <<2, 2>>>>
    /\ triggers[1].type # triggers[2].type
    /\ queue_info[1].name = queue_info[2].name
    /\ msgs[1] = MakeSlackMsg(triggers[1], queue_info[1])
    /\ msgs[2] = MakeSlackMsg(triggers[2], queue_info[2])

====
